---- MODULE Spec2Model ----
(***************************************************************************)
(* tracing-telegram: a tracing Layer that forwards log events to Telegram  *)
(* chats through a bounded tokio mpsc channel and one delivery worker.     *)
(*                                                                         *)
(* Text is modelled as a sequence of characters, each character a          *)
(* one-element string ("a", "\\"); a code point the lexer cannot hold is   *)
(* named by its number ("U+274C", and "U+0060" for the backtick).          *)
(* An Option<T> is a sequence of length 0 (None) or 1 (Some(v)).           *)
(***************************************************************************)
EXTENDS Integers, Sequences, FiniteSets, TLC

(***************************************************************************)
(* Program constants and model bounds                                      *)
(***************************************************************************)
\* mpsc::channel(100)
Capacity == 100
\* tokio::time::sleep(Duration::from_secs(60))
DelaySecs == 60
\* number of on_event calls the application makes
MaxEvents == 2
\* number of TelegramLayer values alive at once (the built one and its clones)
MaxLayers == 2
\* seconds of wall-clock time that pass in one Tick step
TickStep == 30
\* length of the texts passed to escape_markdown_v2 directly
MaxLen == 2
\* times escape_markdown_v2 is applied again to its own result
MaxReapply == 2

None == <<>>
Some(v) == <<v>>
IsSome(o) == Len(o) = 1
UnwrapOr(o, d) == IF IsSome(o) THEN o[1] ELSE d

(***************************************************************************)
(* Text helpers (std::str)                                                 *)
(***************************************************************************)
\* str::contains(pat): pat occurs as a contiguous substring
Contains(s, pat) ==
    \E i \in 0..(Len(s) - Len(pat)) : SubSeq(s, i + 1, i + Len(pat)) = pat

\* str::replace(from, to), from non-empty: non-overlapping matches, left to right
RECURSIVE Replace(_, _, _)
Replace(s, from, to) ==
    IF Len(s) < Len(from) THEN s
    ELSE IF SubSeq(s, 1, Len(from)) = from
         THEN to \o Replace(SubSeq(s, Len(from) + 1, Len(s)), from, to)
         ELSE <<s[1]>> \o Replace(Tail(s), from, to)

Digit(d) == <<"0", "1", "2", "3", "4", "5", "6", "7", "8", "9">>[d + 1]

\* u32::to_string / Display of an unsigned integer
RECURSIVE UIntToString(_)
UIntToString(n) ==
    IF n < 10 THEN <<Digit(n)>> ELSE UIntToString(n \div 10) \o <<Digit(n % 10)>>

(***************************************************************************)
(* escape_utils.rs                                                         *)
(***************************************************************************)
\* variant: the backtick is missing from the set
chars_to_escape_no_backtick ==
    {"_", "*", "[", "]", "(", ")", "~", ">", "#", "+", "-", "=", "|",
     "{", "}", ".", "!"}

chars_to_escape ==
    {"_", "*", "[", "]", "(", ")", "~", "U+0060", ">", "#", "+", "-", "=", "|",
     "{", "}", ".", "!"}

\* variant: a character that already follows a backslash is left alone
RECURSIVE EscapeFrom(_, _)
EscapeFrom(text, k) ==
    IF k > Len(text) THEN <<>>
    ELSE (IF text[k] \in chars_to_escape /\ ~(k > 1 /\ text[k - 1] = "\\")
          THEN <<"\\", text[k]>> ELSE <<text[k]>>) \o EscapeFrom(text, k + 1)

escape_markdown_v2_once(text) == EscapeFrom(text, 1)

RECURSIVE escape_markdown_v2(_)
escape_markdown_v2(text) ==
    IF text = <<>> THEN <<>>
    ELSE (IF Head(text) \in chars_to_escape THEN <<"\\", Head(text)>>
          ELSE <<Head(text)>>) \o escape_markdown_v2(Tail(text))

(***************************************************************************)
(* Levels, emojis, formats                                                 *)
(***************************************************************************)
Levels == {"ERROR", "WARN", "INFO", "DEBUG", "TRACE"}

\* Display for tracing::Level
LevelToString(level) ==
    CASE level = "ERROR" -> <<"E", "R", "R", "O", "R">>
      [] level = "WARN"  -> <<"W", "A", "R", "N">>
      [] level = "INFO"  -> <<"I", "N", "F", "O">>
      [] level = "DEBUG" -> <<"D", "E", "B", "U", "G">>
      [] level = "TRACE" -> <<"T", "R", "A", "C", "E">>

\* lazy_static LEVEL_EMOJIS: HashMap::get, None for a level without an entry
LEVEL_EMOJIS(level) ==
    CASE level = "ERROR" -> Some(<<"U+274C">>)
      [] level = "WARN"  -> Some(<<"U+26A0", "U+FE0F">>)
      [] level = "INFO"  -> Some(<<"U+2139", "U+FE0F">>)
      [] level = "DEBUG" -> Some(<<"U+1F50D">>)
      [] level = "TRACE" -> Some(<<"U+1F4DD">>)
      [] OTHER -> None

\* enum TelegramFormat
FmtText == [kind |-> "Text", tpl |-> <<>>]
FmtMarkdown == [kind |-> "Markdown", tpl |-> <<>>]
FmtJson == [kind |-> "Json", tpl |-> <<>>]
FmtTemplate(tpl) == [kind |-> "Template", tpl |-> tpl]

\* teloxide::types::ParseMode::MarkdownV2
MarkdownV2 == "MarkdownV2"

DefaultUnknown == <<"U", "n", "k", "n", "o", "w", "n">>

\* file.unwrap_or(&self.unknown).replace("\\", "/")
FileText(file, unknown) == Replace(UnwrapOr(file, unknown), <<"\\">>, <<"/">>)

\* the match on self.format in on_event: (msg, parse_mode)
Render(format, unknown, ev) ==
    LET output == ev.message
        now == ev.now
        level == LevelToString(ev.level)
        emoji == UnwrapOr(LEVEL_EMOJIS(ev.level), unknown)
        module == UnwrapOr(ev.module, unknown)
        file == FileText(ev.file, unknown)
        line == UIntToString(UnwrapOr(ev.line, 0))
    IN  CASE format.kind = "Text" ->
               [text |-> emoji \o <<" ", "[">> \o now \o <<"]", " ">> \o output,
                parse_mode |-> None]
          [] format.kind = "Markdown" ->
               [text |-> <<"U+0060", "U+0060", "U+0060", "\n">> \o emoji \o <<" ", "[">> \o now
                         \o <<"]", " ">> \o module \o <<":">> \o line \o <<" ">>
                         \o file \o <<" ">> \o escape_markdown_v2(output)
                         \o <<" ", "[">> \o level \o <<"]", "\n", "U+0060", "U+0060", "U+0060">>,
                parse_mode |-> Some(MarkdownV2)]
          [] format.kind = "Json" ->
               [text |-> <<"U+0060", "U+0060", "U+0060", " ", "{", "\"", "t", "i", "m", "e", "\"", ":", " ", "\"">>
                         \o now
                         \o <<"\"", ",", " ", "\"", "e", "m", "o", "j", "i", "\"", ":", " ", "\"">>
                         \o emoji
                         \o <<"\"", ",", " ", "\"", "m", "s", "g", "\"", ":", " ", "\"">>
                         \o output
                         \o <<"\"", ",", " ", "\"", "l", "e", "v", "e", "l", "\"", ":", " ", "\"">>
                         \o level
                         \o <<"\"", ",", " ", "\"", "m", "o", "d", "u", "l", "e", "\"", ":", " ", "\"">>
                         \o module
                         \o <<"\"", ",", " ", "\"", "f", "i", "l", "e", "\"", ":", " ", "\"">>
                         \o file
                         \o <<"\"", ",", " ", "\"", "l", "i", "n", "e", "\"", ":", " ">>
                         \o line
                         \o <<" ", "}", " ", "U+0060", "U+0060", "U+0060">>,
                parse_mode |-> Some(MarkdownV2)]
          [] format.kind = "Template" ->
               [text |->
                  Replace(Replace(Replace(Replace(Replace(Replace(Replace(
                      format.tpl,
                      <<"{", "e", "m", "o", "j", "i", "}">>, emoji),
                      <<"{", "t", "i", "m", "e", "}">>, now),
                      <<"{", "m", "s", "g", "}">>, output),
                      <<"{", "l", "e", "v", "e", "l", "}">>, level),
                      <<"{", "m", "o", "d", "u", "l", "e", "}">>, module),
                      <<"{", "f", "i", "l", "e", "}">>, file),
                      <<"{", "l", "i", "n", "e", "}">>, line),
                parse_mode |-> None]

\* variant: a tag must start the message (starts_with instead of contains)
TagAdmitsPrefix(tag, output) ==
    Len(tag) > 0 =>
        \E i \in 1..Len(tag) :
            /\ Len(tag[i]) <= Len(output)
            /\ SubSeq(output, 1, Len(tag[i])) = tag[i]

\* variant: the tag list is searched without the self.tag.len() > 0 test
TagAdmitsAny(tag, output) ==
    \E i \in 1..Len(tag) : Contains(output, tag[i])

\* the tag filter of on_event: self.tag empty, or some tag contained in the message
TagAdmits(tag, output) ==
    Len(tag) > 0 => \E i \in 1..Len(tag) : Contains(output, tag[i])

\* variant: the is_empty() early return is missing
AdmitNoEmptyCheck(layer, ev) ==
    IF ~TagAdmits(layer.tag, ev.message) THEN None
    ELSE Some(Render(layer.format, layer.unknown, ev))

\* on_event up to the spawn: None when the event is discarded, else the request
Admit(layer, ev) ==
    IF ev.message = <<>> THEN None
    ELSE IF ~TagAdmits(layer.tag, ev.message) THEN None
    ELSE Some(Render(layer.format, layer.unknown, ev))

(***************************************************************************)
(* Inputs: what the application passes to the builder and emits            *)
(***************************************************************************)
\* Arc<Bot> handles the application holds
BotArgs == {"bot"}
\* arguments of chat_id(i64)
ChatIdArgs == {1}
\* arguments of chat_ids(Vec<i64>) and of with_bot(token, Vec<i64>)
ChatIdsArgs == {<<>>, <<1, 2>>}
\* arguments of template(&'static str)
TemplateArgs == {<<"{", "l", "e", "v", "e", "l", "}", ":", "{", "m", "s", "g", "}">>}
\* arguments of tag(Vec<String>)
TagArgs == {<<<<"a">>>>}
\* arguments of unknown(String)
UnknownArgs == {<<>>}

\* Local::now().format("%Y-%m-%d %H:%M:%S")
Timestamps ==
    {<<"2", "0", "2", "6", "-", "0", "1", "-", "0", "2", " ",
       "0", "3", ":", "0", "4", ":", "0", "5">>}

\* the events the application emits: message field (empty when the event has
\* none), level and optional metadata
EventInputs ==
    UNION { { [message |-> <<"a", ".">>, level |-> "ERROR", module |-> Some(<<"m">>),
               file |-> Some(<<"s", "\\", "m">>), line |-> Some(7), now |-> t],
              [message |-> <<"b">>, level |-> "WARN", module |-> None,
               file |-> None, line |-> None, now |-> t],
              [message |-> <<>>, level |-> "INFO", module |-> None,
               file |-> None, line |-> None, now |-> t] } : t \in Timestamps }

(***************************************************************************)
(* State                                                                   *)
(***************************************************************************)
VARIABLES
    phase,      \* "builder": builder alive; "built": build() returned; "panicked"
    panicMsg,   \* message of the panic that ended build(), "" if none
    builder,    \* TelegramLayerBuilder fields
    layer,      \* TelegramLayer fields format, tag, unknown
    layers,     \* number of live TelegramLayer values (each owns a Sender clone)
    chat_ids,   \* the recipient list moved into the worker task
    budget,     \* on_event calls the application still makes
    events,     \* history: every on_event call: its message, the request produced
    tasks,      \* spawned enqueue tasks not yet completed (indices into events)
    queue,      \* the mpsc channel buffer
    enqOrder,   \* history: event indices in the order they entered the channel
    wpc,        \* worker: "none", "recv", "send", "sleep", "done"
    cur,        \* worker: the request being delivered (Option)
    idx,        \* worker: position in chat_ids of the send in flight
    sleepLeft,  \* worker: seconds until the armed sleep completes
    sinceFail,  \* history: seconds passed since the last failed send (capped)
    lastResult, \* history: outcome of the last completed send: "none", "ok", "err"
    anyOk,      \* history: some send returned Ok
    sent,       \* history: every transport send issued, in order
    escaped,    \* the last call of the public escape_markdown_v2 (Option)
    recipientLog \* history: the chat ids passed to chat_id, chat_ids and with_bot

vars == <<phase, panicMsg, builder, layer, layers, chat_ids, budget, events, tasks,
          queue, enqOrder, wpc, cur, idx, sleepLeft, sinceFail, lastResult, anyOk, sent,
          escaped, recipientLog>>

builderVars == <<builder>>
sinkVars == <<layer, layers>>
producerVars == <<budget, events, tasks>>
workerVars == <<wpc, cur, idx, sleepLeft, sinceFail, lastResult, anyOk, sent>>

\* no recipient setter called yet; last: argument of the last call (Option),
\* all: every chat id passed so far
NoRecipients == [last |-> None, all |-> {}]

\* the log after the recipient setter was called with the list v
Logged(log, v) ==
    [last |-> Some(v), all |-> log.all \cup {v[k] : k \in 1..Len(v)}]

\* the log of builder().bot(b).chat_ids(v)
LogOf(v) == Logged(NoRecipients, v)

\* #[derive(Default)] TelegramLayerBuilder
DefaultBuilder ==
    [bot |-> None, chat_ids |-> None, format |-> None, tag |-> None, unknown |-> None]

\* the layer build() makes when format, tag and unknown are unset
DefaultLayer == [format |-> FmtText, tag |-> <<>>, unknown |-> DefaultUnknown]

Init ==
    /\ phase = "builder"
    /\ panicMsg = ""
    /\ builder = DefaultBuilder
    /\ layer = DefaultLayer
    /\ layers = 0
    /\ chat_ids = <<>>
    /\ budget = MaxEvents
    /\ events = <<>>
    /\ tasks = {}
    /\ queue = <<>>
    /\ enqOrder = <<>>
    /\ wpc = "none"
    /\ cur = None
    /\ idx = 0
    /\ sleepLeft = 0
    /\ sinceFail = DelaySecs
    /\ lastResult = "none"
    /\ anyOk = FALSE
    /\ sent = <<>>
    /\ escaped = None
    /\ recipientLog = NoRecipients

(***************************************************************************)
(* TelegramLayerBuilder                                                    *)
(***************************************************************************)
\* everything but the builder's fields
runVars == <<sinkVars, chat_ids, producerVars, queue, enqOrder, workerVars>>

bot ==
    \E b \in BotArgs :
        /\ phase = "builder"
        /\ builder' = [builder EXCEPT !.bot = Some(b)]
        /\ UNCHANGED <<escaped, recipientLog, phase, panicMsg, runVars>>

\* variant: chat_id pushes onto the list already set
chat_id_push ==
    \E c \in ChatIdArgs :
        /\ phase = "builder"
        /\ builder' = [builder EXCEPT
                          !.chat_ids = Some(UnwrapOr(builder.chat_ids, <<>>) \o <<c>>)]
        /\ recipientLog' = Logged(recipientLog, <<c>>)
        /\ UNCHANGED <<escaped, phase, panicMsg, runVars>>

chat_id ==
    \E c \in ChatIdArgs :
        /\ phase = "builder"
        /\ builder' = [builder EXCEPT !.chat_ids = Some(<<c>>)]
        /\ recipientLog' = Logged(recipientLog, <<c>>)
        /\ UNCHANGED <<escaped, phase, panicMsg, runVars>>

chat_ids_ ==
    \E v \in ChatIdsArgs :
        /\ phase = "builder"
        /\ builder' = [builder EXCEPT !.chat_ids = Some(v)]
        /\ recipientLog' = Logged(recipientLog, v)
        /\ UNCHANGED <<escaped, phase, panicMsg, runVars>>

markdown ==
    /\ phase = "builder"
    /\ builder' = [builder EXCEPT !.format = Some(FmtMarkdown)]
    /\ UNCHANGED <<escaped, recipientLog, phase, panicMsg, runVars>>

text ==
    /\ phase = "builder"
    /\ builder' = [builder EXCEPT !.format = Some(FmtText)]
    /\ UNCHANGED <<escaped, recipientLog, phase, panicMsg, runVars>>

json ==
    /\ phase = "builder"
    /\ builder' = [builder EXCEPT !.format = Some(FmtJson)]
    /\ UNCHANGED <<escaped, recipientLog, phase, panicMsg, runVars>>

template ==
    \E tpl \in TemplateArgs :
        /\ phase = "builder"
        /\ builder' = [builder EXCEPT !.format = Some(FmtTemplate(tpl))]
        /\ UNCHANGED <<escaped, recipientLog, phase, panicMsg, runVars>>

tag ==
    \E v \in TagArgs :
        /\ phase = "builder"
        /\ builder' = [builder EXCEPT !.tag = Some(v)]
        /\ UNCHANGED <<escaped, recipientLog, phase, panicMsg, runVars>>

\* Bot::new(bot_token) makes a fresh handle
with_bot ==
    \E v \in ChatIdsArgs :
        /\ phase = "builder"
        /\ builder' = [builder EXCEPT !.bot = Some("bot"), !.chat_ids = Some(v)]
        /\ recipientLog' = Logged(recipientLog, v)
        /\ UNCHANGED <<escaped, phase, panicMsg, runVars>>

unknown ==
    \E u \in UnknownArgs :
        /\ phase = "builder"
        /\ builder' = [builder EXCEPT !.unknown = Some(u)]
        /\ UNCHANGED <<escaped, recipientLog, phase, panicMsg, runVars>>

\* build(): the first expect that finds None panics; otherwise TelegramSender::new
\* creates the channel and spawns the worker, and the layer is returned
BuildPanic ==
    IF ~IsSome(builder.bot) THEN "Bot must be set"
    ELSE IF ~IsSome(builder.chat_ids) THEN "chat_id must be set"
    ELSE ""

build ==
    /\ phase = "builder"
    /\ builder' = DefaultBuilder
    /\ IF BuildPanic # ""
       THEN /\ phase' = "panicked"
            /\ panicMsg' = BuildPanic
            /\ UNCHANGED <<sinkVars, chat_ids, queue, wpc>>
       ELSE /\ phase' = "built"
            /\ panicMsg' = ""
            /\ layer' = [format |-> UnwrapOr(builder.format, FmtText),
                         tag |-> UnwrapOr(builder.tag, <<>>),
                         unknown |-> UnwrapOr(builder.unknown, DefaultUnknown)]
            /\ layers' = 1
            /\ chat_ids' = builder.chat_ids[1]
            /\ queue' = <<>>
            /\ wpc' = "recv"
    /\ UNCHANGED <<escaped, recipientLog, producerVars, enqOrder, cur, idx, sleepLeft,
                   sinceFail,
                   lastResult, anyOk, sent>>

(***************************************************************************)
(* TelegramLayer: on_event, Clone, Drop                                    *)
(***************************************************************************)
\* variant: on_event awaits the channel send itself instead of spawning it
on_event_inline ==
    \E ev \in EventInputs :
        /\ phase = "built"
        /\ layers >= 1
        /\ budget >= 1
        /\ budget' = budget - 1
        /\ events' = Append(events, [message |-> ev.message,
                                     req |-> Admit(layer, ev)])
        /\ IF IsSome(Admit(layer, ev))
           THEN /\ Len(queue) < Capacity
                /\ queue' = Append(queue, [id |-> Len(events) + 1,
                                           text |-> Admit(layer, ev)[1].text,
                                           parse_mode |-> Admit(layer, ev)[1].parse_mode])
                /\ enqOrder' = Append(enqOrder, Len(events) + 1)
           ELSE UNCHANGED <<queue, enqOrder>>
        /\ UNCHANGED <<escaped, recipientLog, phase, panicMsg, builderVars, sinkVars, chat_ids, tasks,
                       workerVars>>

\* variant: on_event uses try_send and drops the request when the channel is full
on_event_try_send ==
    \E ev \in EventInputs :
        /\ phase = "built"
        /\ layers >= 1
        /\ budget >= 1
        /\ budget' = budget - 1
        /\ events' = Append(events, [message |-> ev.message,
                                     req |-> Admit(layer, ev)])
        /\ IF IsSome(Admit(layer, ev)) /\ Len(queue) < Capacity
           THEN /\ queue' = Append(queue, [id |-> Len(events) + 1,
                                           text |-> Admit(layer, ev)[1].text,
                                           parse_mode |-> Admit(layer, ev)[1].parse_mode])
                /\ enqOrder' = Append(enqOrder, Len(events) + 1)
           ELSE UNCHANGED <<queue, enqOrder>>
        /\ UNCHANGED <<escaped, recipientLog, phase, panicMsg, builderVars, sinkVars, chat_ids, tasks,
                       workerVars>>

\* on_event for one event: extract the message, filter, render, then
\* tokio::spawn the enqueue; the call itself never touches the channel
OnEvent(ev) ==
    /\ phase = "built"
    /\ layers >= 1
    /\ budget >= 1
    /\ budget' = budget - 1
    /\ events' = Append(events, [message |-> ev.message,
                                 req |-> Admit(layer, ev)])
    /\ tasks' = IF IsSome(Admit(layer, ev))
                THEN tasks \cup {Len(events) + 1} ELSE tasks
    /\ UNCHANGED <<escaped, recipientLog, phase, panicMsg, builderVars, sinkVars, chat_ids, queue,
                   enqOrder, workerVars>>

on_event == \E ev \in EventInputs : OnEvent(ev)

\* #[derive(Clone)] on TelegramLayer: the clone shares the channel
clone ==
    /\ phase = "built"
    /\ layers >= 1
    /\ layers < MaxLayers
    /\ layers' = layers + 1
    /\ UNCHANGED <<escaped, recipientLog, phase, panicMsg, builderVars, layer, chat_ids, producerVars,
                   queue, enqOrder, workerVars>>

\* a TelegramLayer value is dropped, and with it its Sender
drop ==
    /\ phase = "built"
    /\ layers >= 1
    /\ layers' = layers - 1
    /\ UNCHANGED <<escaped, recipientLog, phase, panicMsg, builderVars, layer, chat_ids, producerVars,
                   queue, enqOrder, workerVars>>

(***************************************************************************)
(* TelegramSender::send, run by the task on_event spawned                  *)
(***************************************************************************)
\* variant: the spawned tasks run strictly in the order they were spawned
sendInSpawnOrder(i) ==
    /\ i \in tasks
    /\ \A k \in tasks : i <= k
    /\ Len(queue) < Capacity
    /\ queue' = Append(queue, [id |-> i,
                               text |-> events[i].req[1].text,
                               parse_mode |-> events[i].req[1].parse_mode])
    /\ enqOrder' = Append(enqOrder, i)
    /\ tasks' = tasks \ {i}
    /\ UNCHANGED <<escaped, recipientLog, phase, panicMsg, builderVars, sinkVars, chat_ids, budget,
                   events, workerVars>>

\* variant: the channel is unbounded, the send never waits
sendUnbounded(i) ==
    /\ i \in tasks
    /\ queue' = Append(queue, [id |-> i,
                               text |-> events[i].req[1].text,
                               parse_mode |-> events[i].req[1].parse_mode])
    /\ enqOrder' = Append(enqOrder, i)
    /\ tasks' = tasks \ {i}
    /\ UNCHANGED <<escaped, recipientLog, phase, panicMsg, builderVars, sinkVars, chat_ids, budget,
                   events, workerVars>>

\* self.sender.send((msg, parse_mode)).await: completes when the channel has a
\* free slot; with the receiver gone it returns Err, which `let _ =` discards
send(i) ==
    /\ i \in tasks
    /\ IF wpc = "done"
       THEN UNCHANGED <<queue, enqOrder>>
       ELSE /\ Len(queue) < Capacity
            /\ queue' = Append(queue, [id |-> i,
                                       text |-> events[i].req[1].text,
                                       parse_mode |-> events[i].req[1].parse_mode])
            /\ enqOrder' = Append(enqOrder, i)
    /\ tasks' = tasks \ {i}
    /\ UNCHANGED <<escaped, recipientLog, phase, panicMsg, builderVars, sinkVars, chat_ids, budget,
                   events, workerVars>>

TaskSend == \E i \in tasks : send(i)

(***************************************************************************)
(* The worker task spawned by TelegramSender::new                          *)
(***************************************************************************)
\* number of live Sender handles: one per layer, one per pending task
Senders == layers + Cardinality(tasks)

\* variant: the request is sent without setting its parse mode
SendRequestNoMode(req, to) ==
    [id |-> req.id, to |-> to, text |-> req.text, parse_mode |-> None]

\* bot_clone.send_message(ChatId(chat_id), msg) with the optional parse_mode
SendRequest(req, to) ==
    [id |-> req.id, to |-> to, text |-> req.text, parse_mode |-> req.parse_mode]

\* enter the for loop body for recipient k of request req, or leave the loop
Iterate(req, k) ==
    IF k <= Len(chat_ids)
    THEN /\ wpc' = "send"
         /\ cur' = Some(req)
         /\ idx' = k
         /\ sent' = Append(sent, SendRequest(req, chat_ids[k]))
    ELSE /\ wpc' = "recv"
         /\ cur' = None
         /\ idx' = 0
         /\ sent' = sent

\* variant: the worker takes the newest entry instead of the oldest
RecvNewest ==
    /\ wpc = "recv"
    /\ queue # <<>>
    /\ queue' = SubSeq(queue, 1, Len(queue) - 1)
    /\ Iterate(queue[Len(queue)], 1)
    /\ UNCHANGED <<escaped, recipientLog, phase, panicMsg, builderVars, sinkVars, chat_ids, producerVars,
                   enqOrder, sleepLeft, sinceFail, lastResult, anyOk>>

\* variant: the worker takes the next request while a send is still in flight
RecvOverlapping ==
    /\ wpc \in {"recv", "send"}
    /\ queue # <<>>
    /\ queue' = Tail(queue)
    /\ Iterate(Head(queue), 1)
    /\ UNCHANGED <<escaped, recipientLog, phase, panicMsg, builderVars, sinkVars, chat_ids, producerVars,
                   enqOrder, sleepLeft, sinceFail, lastResult, anyOk>>

\* rx.recv().await returns Some: take the head, start on the first recipient
Recv ==
    /\ wpc = "recv"
    /\ queue # <<>>
    /\ queue' = Tail(queue)
    /\ Iterate(Head(queue), 1)
    /\ UNCHANGED <<escaped, recipientLog, phase, panicMsg, builderVars, sinkVars, chat_ids, producerVars,
                   enqOrder, sleepLeft, sinceFail, lastResult, anyOk>>

\* variant: the worker stops as soon as the last layer is dropped
RecvClosedOnDrop ==
    /\ wpc = "recv"
    /\ layers = 0
    /\ wpc' = "done"
    /\ UNCHANGED <<escaped, recipientLog, phase, panicMsg, builderVars, sinkVars, chat_ids, producerVars,
                   queue, enqOrder, cur, idx, sleepLeft, sinceFail, lastResult,
                   anyOk, sent>>

\* rx.recv().await returns None: channel empty and every Sender dropped
RecvClosed ==
    /\ wpc = "recv"
    /\ queue = <<>>
    /\ Senders = 0
    /\ wpc' = "done"
    /\ UNCHANGED <<escaped, recipientLog, phase, panicMsg, builderVars, sinkVars, chat_ids, producerVars,
                   queue, enqOrder, cur, idx, sleepLeft, sinceFail, lastResult,
                   anyOk, sent>>

\* req.await returns Ok: next recipient at once
SendOk ==
    /\ wpc = "send"
    /\ lastResult' = "ok"
    /\ anyOk' = TRUE
    /\ Iterate(cur[1], idx + 1)
    /\ UNCHANGED <<escaped, recipientLog, phase, panicMsg, builderVars, sinkVars, chat_ids, producerVars,
                   queue, enqOrder, sleepLeft, sinceFail>>

\* variant: a failed send ends the for loop after the sleep is armed
SendErrBreak ==
    /\ wpc = "send"
    /\ wpc' = "sleep"
    /\ idx' = Len(chat_ids)
    /\ sleepLeft' = DelaySecs
    /\ sinceFail' = 0
    /\ lastResult' = "err"
    /\ UNCHANGED <<escaped, recipientLog, phase, panicMsg, builderVars, sinkVars, chat_ids, producerVars,
                   queue, enqOrder, cur, anyOk, sent>>

\* req.await returns Err: arm the sleep
SendErr ==
    /\ wpc = "send"
    /\ wpc' = "sleep"
    /\ sleepLeft' = DelaySecs
    /\ sinceFail' = 0
    /\ lastResult' = "err"
    /\ UNCHANGED <<escaped, recipientLog, phase, panicMsg, builderVars, sinkVars, chat_ids, producerVars,
                   queue, enqOrder, cur, idx, anyOk, sent>>

\* variant: after the sleep the failed send is issued again
WakeRetry ==
    /\ wpc = "sleep"
    /\ sleepLeft = 0
    /\ Iterate(cur[1], idx)
    /\ UNCHANGED <<escaped, recipientLog, phase, panicMsg, builderVars, sinkVars, chat_ids, producerVars,
                   queue, enqOrder, sleepLeft, sinceFail, lastResult, anyOk>>

\* variant: the worker goes on without awaiting the sleep
WakeEarly ==
    /\ wpc = "sleep"
    /\ Iterate(cur[1], idx + 1)
    /\ sleepLeft' = 0
    /\ UNCHANGED <<escaped, recipientLog, phase, panicMsg, builderVars, sinkVars, chat_ids, producerVars,
                   queue, enqOrder, sinceFail, lastResult, anyOk>>

\* the sleep completes, no earlier than its deadline: next recipient
Wake ==
    /\ wpc = "sleep"
    /\ sleepLeft = 0
    /\ Iterate(cur[1], idx + 1)
    /\ UNCHANGED <<escaped, recipientLog, phase, panicMsg, builderVars, sinkVars, chat_ids, producerVars,
                   queue, enqOrder, sleepLeft, sinceFail, lastResult, anyOk>>

Min(a, b) == IF a < b THEN a ELSE b
Max(a, b) == IF a > b THEN a ELSE b

\* wall-clock time passes while a sleep is armed
Tick ==
    /\ wpc = "sleep"
    /\ sleepLeft > 0
    /\ sleepLeft' = Max(0, sleepLeft - TickStep)
    /\ sinceFail' = Min(DelaySecs, sinceFail + TickStep)
    /\ UNCHANGED <<escaped, recipientLog, phase, panicMsg, builderVars, sinkVars, chat_ids, producerVars,
                   queue, enqOrder, wpc, cur, idx, lastResult, anyOk, sent>>

(***************************************************************************)
(* Specification                                                           *)
(***************************************************************************)
Next ==
    \/ bot \/ chat_id \/ chat_ids_ \/ markdown \/ text \/ json \/ template
    \/ tag \/ with_bot \/ unknown \/ build
    \/ on_event \/ clone \/ drop \/ TaskSend
    \/ Recv \/ RecvClosed \/ SendOk \/ SendErr \/ Wake \/ Tick

Spec == Init /\ [][Next]_vars

(***************************************************************************)
(* A burst: the built sink after Capacity admitted events whose            *)
(* enqueue tasks have run while the worker has not yet been scheduled.     *)
(* The application keeps its one TelegramLayer for the life of the         *)
(* process (it is owned by the subscriber registry), so the channel stays  *)
(* open.                                                                   *)
(***************************************************************************)
BurstLayer ==
    [format |-> FmtTemplate(<<"{", "m", "s", "g", "}">>), tag |-> <<>>,
     unknown |-> DefaultUnknown]

BurstEvent ==
    CHOOSE ev \in EventInputs : ev.message = <<"b">>

InitBurst ==
    /\ phase = "built"
    /\ panicMsg = ""
    /\ builder = DefaultBuilder
    /\ layer = BurstLayer
    /\ layers = 1
    /\ chat_ids = <<1>>
    /\ budget = MaxEvents
    /\ events = [i \in 1..Capacity |->
                    [message |-> BurstEvent.message,
                     req |-> Admit(BurstLayer, BurstEvent)]]
    /\ tasks = {}
    /\ queue = [i \in 1..Capacity |->
                   [id |-> i,
                    text |-> Admit(BurstLayer, BurstEvent)[1].text,
                    parse_mode |-> Admit(BurstLayer, BurstEvent)[1].parse_mode]]
    /\ enqOrder = [i \in 1..Capacity |-> i]
    /\ wpc = "recv"
    /\ cur = None
    /\ idx = 0
    /\ sleepLeft = 0
    /\ sinceFail = DelaySecs
    /\ lastResult = "none"
    /\ anyOk = FALSE
    /\ sent = <<>>
    /\ escaped = None
    /\ recipientLog = LogOf(chat_ids)

NextBurst ==
    \/ on_event \/ TaskSend
    \/ Recv \/ SendOk \/ SendErr \/ Wake \/ Tick

SpecBurst == InitBurst /\ [][NextBurst]_vars

(***************************************************************************)
(* Fair scheduling: the tokio runtime eventually polls every ready task    *)
(* (the spawned enqueue tasks, the worker), a transport send eventually    *)
(* returns, and time passes.                                               *)
(***************************************************************************)
Worker == Recv \/ RecvClosed \/ SendOk \/ SendErr \/ Wake

Fairness ==
    /\ WF_vars(TaskSend)
    /\ WF_vars(Worker)
    /\ WF_vars(Tick)

\* recipient lists a built sink can have
BuiltChatIds == {<<c>> : c \in ChatIdArgs} \cup ChatIdsArgs

\* the state build() leaves after builder().bot(b).chat_ids(v).build()
InitBuilt ==
    /\ phase = "built"
    /\ panicMsg = ""
    /\ builder = DefaultBuilder
    /\ layer = DefaultLayer
    /\ layers = 1
    /\ chat_ids \in BuiltChatIds
    /\ budget = MaxEvents
    /\ events = <<>>
    /\ tasks = {}
    /\ queue = <<>>
    /\ enqOrder = <<>>
    /\ wpc = "recv"
    /\ cur = None
    /\ idx = 0
    /\ sleepLeft = 0
    /\ sinceFail = DelaySecs
    /\ lastResult = "none"
    /\ anyOk = FALSE
    /\ sent = <<>>
    /\ escaped = None
    /\ recipientLog = LogOf(chat_ids)

NextRun ==
    \/ on_event \/ clone \/ drop \/ TaskSend
    \/ Recv \/ RecvClosed \/ SendOk \/ SendErr \/ Wake \/ Tick

LiveSpec == InitBuilt /\ [][NextRun]_vars /\ Fairness

(***************************************************************************)
(* The public escape_markdown_v2, called by the application on its own     *)
(* text and again on a result it returned. The function is pure, so a      *)
(* behaviour follows one text through its applications.                    *)
(***************************************************************************)
EscapeAlphabet ==
    {"_", "*", "[", "]", "(", ")", "~", "U+0060", ">", "#", "+", "-", "=", "|",
     "{", "}", ".", "!", "a", "\\", " "}

\* arguments of escape_markdown_v2(&str)
EscapeArgs == UNION {[1..n -> EscapeAlphabet] : n \in 0..MaxLen}

pipelineVars == <<recipientLog, phase, panicMsg, builderVars, runVars>>

escape ==
    \E t \in EscapeArgs :
        /\ escaped = None
        /\ escaped' = Some([text |-> t, out |-> escape_markdown_v2(t), again |-> 0])
        /\ UNCHANGED pipelineVars

escape_again ==
    /\ IsSome(escaped)
    /\ escaped[1].again < MaxReapply
    /\ escaped' = Some([text |-> escaped[1].out,
                        out |-> escape_markdown_v2(escaped[1].out),
                        again |-> escaped[1].again + 1])
    /\ UNCHANGED pipelineVars

NextEscape == escape \/ escape_again

SpecEscape == Init /\ [][NextEscape]_vars

(***************************************************************************)
(* Filtering and formatting: a sink built with any format and tag list,    *)
(* one recipient, and sends that succeed.                                  *)
(***************************************************************************)
\* the events emitted: those of EventInputs and one whose message is the
\* text of a placeholder token
FormatEvents ==
    EventInputs \cup
    { [message |-> <<"{", "l", "e", "v", "e", "l", "}">>, level |-> "DEBUG",
       module |-> None, file |-> None, line |-> None, now |-> t] : t \in Timestamps }

\* arguments of template(&'static str)
FormatTemplates ==
    TemplateArgs \cup
    {<<"{", "e", "m", "o", "j", "i", "}", "{", "t", "i", "m", "e", "}",
       "{", "m", "s", "g", "}", "{", "l", "e", "v", "e", "l", "}",
       "{", "m", "o", "d", "u", "l", "e", "}", "{", "f", "i", "l", "e", "}",
       "{", "l", "i", "n", "e", "}", "{", "x", "}">>}

\* arguments of tag(Vec<String>), and the empty list of an unset tag
FormatTags ==
    {<<>>, <<<<"a">>>>, <<<<"A">>>>, <<<<"x">>, <<".">>>>, <<<<>>>>}

\* the layers build() returns for these arguments
FormatLayers ==
    {[format |-> f, tag |-> g, unknown |-> DefaultUnknown] :
        f \in {FmtText, FmtMarkdown, FmtJson} \cup {FmtTemplate(t) : t \in FormatTemplates},
        g \in FormatTags}

\* on_event, for the events of FormatEvents
on_event_fmt == \E ev \in FormatEvents : OnEvent(ev)

InitFormat ==
    /\ phase = "built"
    /\ panicMsg = ""
    /\ builder = DefaultBuilder
    /\ layer \in FormatLayers
    /\ layers = 1
    /\ chat_ids = <<1>>
    /\ budget = MaxEvents
    /\ events = <<>>
    /\ tasks = {}
    /\ queue = <<>>
    /\ enqOrder = <<>>
    /\ wpc = "recv"
    /\ cur = None
    /\ idx = 0
    /\ sleepLeft = 0
    /\ sinceFail = DelaySecs
    /\ lastResult = "none"
    /\ anyOk = FALSE
    /\ sent = <<>>
    /\ escaped = None
    /\ recipientLog = LogOf(chat_ids)

NextFormat == on_event_fmt \/ TaskSend \/ Recv \/ SendOk

SpecFormat == InitFormat /\ [][NextFormat]_vars

(***************************************************************************)
(* Derived quantities used by the properties                               *)
(***************************************************************************)
\* requests the worker has taken from the channel so far
Dequeued == Len(enqOrder) - Len(queue)

\* the worker is inside the for loop (a send in flight, or asleep after one)
InLoop == wpc \in {"send", "sleep"}

\* sends that have returned
Completed == Len(sent) - (IF wpc = "send" THEN 1 ELSE 0)

\* event indices sent to recipient r, in the order the sends were issued
SentTo(r) ==
    LET s == SelectSeq(sent, LAMBDA x : x.to = r)
    IN  [j \in 1..Len(s) |-> s[j].id]

IsPrefix(p, q) == Len(p) <= Len(q) /\ p = SubSeq(q, 1, Len(p))

Recipients == {chat_ids[k] : k \in 1..Len(chat_ids)}

C2_DelayAfterFailure ==
    [][ /\ (Len(sent') > Len(sent) \/ Len(queue') < Len(queue))
            => sinceFail >= DelaySecs
        /\ (Completed' = Completed + 1 /\ lastResult' = "ok")
            => /\ wpc' # "sleep"
               /\ sleepLeft' = 0
               /\ (Len(sent') > Len(sent) \/ wpc' = "recv")
        /\ (Completed' = Completed + 1 /\ lastResult' = "err")
            => (wpc' = "sleep" /\ sleepLeft' = DelaySecs /\ sent' = sent /\ queue' = queue)
      ]_vars

\* the worker is part-way through the delay while a later recipient of the
\* same request and a later request are waiting
C2_Witness ==
    /\ wpc = "sleep"
    /\ sleepLeft > 0
    /\ sleepLeft < DelaySecs
    /\ idx < Len(chat_ids)
    /\ queue # <<>>

(***************************************************************************)
(* C3. For each recipient the sends it receives are in the order the       *)
(* requests entered the channel.                                           *)
(***************************************************************************)
C3_PerRecipientFifo ==
    \A r \in Recipients : IsPrefix(SentTo(r), enqOrder)

\* two requests entered the channel in the reverse of their emission order and
\* both were sent to both recipients, with a failure among the sends
C3_Witness ==
    /\ Len(chat_ids) = 2
    /\ enqOrder = <<2, 1>>
    /\ \A r \in Recipients : SentTo(r) = <<2, 1>>
    /\ lastResult = "err"

(***************************************************************************)
(* C4. The channel never holds more than Capacity = 100 requests; while it *)
(* is full a pending enqueue task cannot complete (it waits), and every    *)
(* admitted event is either still a pending task or has entered the        *)
(* channel exactly once, the channel holding exactly the entries not yet   *)
(* dequeued.                                                               *)
(***************************************************************************)
Range(seq) == {seq[j] : j \in 1..Len(seq)}

Admitted == {i \in 1..Len(events) : IsSome(events[i].req)}

C4_BoundedQueueNoLoss ==
    /\ Len(queue) <= Capacity
    /\ Range(enqOrder) = Admitted \ tasks
    /\ Cardinality(Range(enqOrder)) = Len(enqOrder)
    /\ Len(queue) <= Len(enqOrder)
    /\ \A k \in 1..Len(queue) :
          /\ queue[k].id = enqOrder[Dequeued + k]
          /\ queue[k].text = events[queue[k].id].req[1].text
    /\ (Len(queue) = Capacity /\ tasks # {}) => ~ENABLED TaskSend

\* the channel holds Capacity requests and an enqueue task is waiting
C4_Witness ==
    /\ Len(queue) = Capacity
    /\ tasks # {}
    /\ ~ENABLED TaskSend

(***************************************************************************)
(* C5. on_event never waits on the delivery pipeline: whenever the         *)
(* application holds a layer and emits, on_event can take its step, also   *)
(* with the channel full and the worker asleep or inside a send; the step  *)
(* leaves the channel and the worker untouched and at most adds one        *)
(* spawned task.                                                           *)
(***************************************************************************)
C5_OnEventNeverWaits ==
    /\ [](phase = "built" /\ layers >= 1 /\ budget >= 1 => ENABLED on_event)
    /\ [][Len(events') > Len(events)
            => /\ queue' = queue
               /\ enqOrder' = enqOrder
               /\ wpc' = wpc /\ sent' = sent
               /\ tasks' \in {tasks, tasks \cup {Len(events')}}]_vars

\* an event was emitted and has filled the channel again, the worker is in its
\* failure delay, and on_event can run once more
C5_Witness ==
    /\ Len(queue) = Capacity
    /\ wpc = "sleep"
    /\ sleepLeft > 0
    /\ Len(events) > Capacity
    /\ budget >= 1
    /\ ENABLED on_event

(***************************************************************************)
(* C6. Emission order is not preserved into the channel: any pending       *)
(* enqueue task may complete next whenever the channel has room, whatever  *)
(* the order of the on_event calls that spawned the tasks; so a later      *)
(* event can enter the channel, and be sent, before an earlier one.        *)
(***************************************************************************)
C6_AnyPendingTaskMayEnter ==
    \A i \in tasks : (Len(queue) < Capacity /\ wpc # "done") => ENABLED send(i)

\* event 1 was emitted before event 2, yet 2 entered the channel first and
\* was sent first
C6_Witness ==
    /\ enqOrder = <<2, 1>>
    /\ Len(sent) >= 2
    /\ sent[1].id = 2
    /\ sent[Len(sent)].id = 1

(***************************************************************************)
(* C7. Under fair scheduling every request produced by on_event eventually *)
(* enters the channel, is dequeued, and has a send issued to every         *)
(* recipient, whatever the results of the sends.                           *)
(***************************************************************************)
Delivered(i) ==
    /\ i \in Range(enqOrder)
    /\ \A k \in 1..Len(queue) : queue[k].id # i
    /\ \A r \in Recipients : i \in Range(SentTo(r))

C7_NoEventLost ==
    \A i \in 1..MaxEvents : (i \in tasks) ~> Delivered(i)

\* every admitted event was delivered to both recipients although every
\* send failed
C7_Witness ==
    /\ Len(chat_ids) = 2
    /\ Cardinality(Admitted) >= 2
    /\ tasks = {}
    /\ \A i \in Admitted : Delivered(i)
    /\ Completed = Len(sent)
    /\ ~anyOk

(***************************************************************************)
(* C8. Each admitted event makes at most one channel entry (exactly one    *)
(* once its task has run) and at most one send per recipient (exactly one  *)
(* once the worker is idle with the channel empty); every send carries the *)
(* text and parse mode rendered by on_event, the parse mode being          *)
(* MarkdownV2 for Markdown and Json and absent for Text and Template; no   *)
(* send is made for an event that did not enter the channel.               *)
(***************************************************************************)
SendsOf(i, r) == Cardinality({j \in 1..Len(sent) : sent[j].id = i /\ sent[j].to = r})

Idle == tasks = {} /\ queue = <<>> /\ wpc \in {"recv", "done"}

C9_UnsetFieldIsRecoverable ==
    /\ phase # "panicked"
    /\ phase # "built" => wpc = "none" /\ queue = <<>>

(***************************************************************************)
(* C10. The recipient list of every built sink is non-empty, so every      *)
(* dequeued request leads to at least one send.                            *)
(***************************************************************************)
C10_RecipientsNonEmpty ==
    /\ phase = "built" => Len(chat_ids) > 0
    /\ (Dequeued > 0 /\ ~InLoop) => Len(sent) >= Dequeued

(***************************************************************************)
(* C14. For every input text, escape_markdown_v2 returns the input with    *)
(* exactly one backslash inserted immediately before each occurrence of a  *)
(* character of the reserved set the specification states, every other     *)
(* character passed through unchanged and in order.                        *)
(***************************************************************************)
\* the reserved set as the specification lists it
SpecReserved ==
    {"_", "*", "[", "]", "(", ")", "~", "U+0060", ">", "#", "+", "-", "=", "|",
     "{", "}", ".", "!"}

\* position in the output of the k-th input character
OutPos(t, k) == k + Cardinality({j \in 1..k : t[j] \in SpecReserved})

C14_OneBackslashPerReserved ==
    \A c \in 1..Len(escaped) :
        LET t == escaped[c].text
            o == escaped[c].out
        IN  /\ Len(o) = OutPos(t, Len(t))
            /\ \A k \in 1..Len(t) :
                  /\ o[OutPos(t, k)] = t[k]
                  /\ t[k] \in SpecReserved => o[OutPos(t, k) - 1] = "\\"
                  /\ t[k] \notin SpecReserved =>
                        OutPos(t, k) = (IF k = 1 THEN 0 ELSE OutPos(t, k - 1)) + 1

\* a backslash passed through as it is, a backtick got its backslash
C14_Witness ==
    /\ IsSome(escaped)
    /\ escaped[1].text = <<"\\", "U+0060">>
    /\ escaped[1].out = <<"\\", "\\", "U+0060">>

(***************************************************************************)
(* C15 as stated. For all text inputs, applying escape_markdown_v2 again   *)
(* to its own output yields a different string.                            *)
(***************************************************************************)
C15_ReapplyAlwaysDiffers ==
    \A c \in 1..Len(escaped) :
        escaped[c].again > 0 => escaped[c].out # escaped[c].text

(***************************************************************************)
(* C15 amended. Applying escape_markdown_v2 again to its own output yields *)
(* a different, longer string exactly when the text holds a reserved       *)
(* character; a text with no reserved character is returned unchanged,     *)
(* however often the function is applied.                                  *)
(***************************************************************************)
HasReserved(t) == \E k \in 1..Len(t) : t[k] \in chars_to_escape

C15_ReapplyDiffersIffReserved ==
    \A c \in 1..Len(escaped) :
        escaped[c].again > 0 =>
            IF HasReserved(escaped[c].text)
            THEN /\ escaped[c].out # escaped[c].text
                 /\ Len(escaped[c].out) > Len(escaped[c].text)
            ELSE escaped[c].out = escaped[c].text

\* the escaped form of "." was escaped again and gained a second backslash
C15_Witness ==
    /\ IsSome(escaped)
    /\ escaped[1].again = 1
    /\ escaped[1].text = <<"\\", ".">>
    /\ escaped[1].out = <<"\\", "\\", ".">>

(***************************************************************************)
(* C11 as stated. For a non-empty tag list an event is admitted (rendered  *)
(* and enqueued) if and only if at least one configured tag is a           *)
(* case-sensitive substring of its message; an event that is not admitted  *)
(* makes no channel entry and no send.                                     *)
(***************************************************************************)
\* pat occurs in s between two cut points
IsSubstring(pat, s) ==
    \E a \in 0..Len(s) : \E b \in a..Len(s) : SubSeq(s, a + 1, b) = pat

SomeTagIn(message) ==
    \E k \in 1..Len(layer.tag) : IsSubstring(layer.tag[k], message)

NoTrace(i) ==
    /\ i \notin tasks
    /\ i \notin Range(enqOrder)
    /\ \A j \in 1..Len(sent) : sent[j].id # i

C11_AdmittedIffSomeTag ==
    Len(layer.tag) > 0 =>
        \A i \in 1..Len(events) :
            /\ IsSome(events[i].req) <=> SomeTagIn(events[i].message)
            /\ ~SomeTagIn(events[i].message) => NoTrace(i)

(***************************************************************************)
(* C11 amended. For a non-empty tag list an event with a non-empty message *)
(* is admitted if and only if at least one configured tag is a             *)
(* case-sensitive substring of the message; an event with an empty message *)
(* is never admitted, also when a configured tag is the empty string; an   *)
(* event that is not admitted makes no channel entry and no send.          *)
(***************************************************************************)
C11_NonEmptyAdmittedIffSomeTag ==
    Len(layer.tag) > 0 =>
        \A i \in 1..Len(events) :
            /\ IsSome(events[i].req) <=>
                  (events[i].message # <<>> /\ SomeTagIn(events[i].message))
            /\ ~IsSome(events[i].req) => NoTrace(i)
            /\ IsSome(events[i].req) =>
                  (i \in tasks \/ i \in Range(enqOrder))

\* with the tags "x" and ".", the message "a." was admitted by its second tag
\* and sent, the message "b" was dropped, and the pipeline is at rest
C11_Witness ==
    /\ layer.tag = <<<<"x">>, <<".">>>>
    /\ Len(events) = 2
    /\ events[1].message = <<"b">>
    /\ events[2].message = <<"a", ".">>
    /\ Idle
    /\ Len(sent) = 1
    /\ sent[1].id = 2

(***************************************************************************)
(* C12. With an empty tag list the tag filter admits every message, the    *)
(* empty string included: the only events dropped are those the earlier    *)
(* empty-message test drops.                                               *)
(***************************************************************************)
C12_EmptyFilterAdmitsAll ==
    layer.tag = <<>> =>
        \A i \in 1..Len(events) :
            /\ TagAdmits(layer.tag, events[i].message)
            /\ IsSome(events[i].req) <=> events[i].message # <<>>

\* no tags: the filter passed the empty message and the message "b"; "b" was
\* sent
C12_Witness ==
    /\ layer.tag = <<>>
    /\ Len(events) = 2
    /\ events[1].message = <<>>
    /\ TagAdmits(layer.tag, events[1].message)
    /\ events[2].message = <<"b">>
    /\ Idle
    /\ Len(sent) = 1

(***************************************************************************)
(* C13. In Template mode the text of every request is the format string    *)
(* with each placeholder token replaced once, scanning left to right, and  *)
(* the inserted text never scanned again: a message that holds "{level}"   *)
(* appears unchanged in the output.                                        *)
(***************************************************************************)
\* the seven tokens and the text each stands for
TokenValues(ev, placeholder) ==
    << <<<<"{", "e", "m", "o", "j", "i", "}">>, UnwrapOr(LEVEL_EMOJIS(ev.level), placeholder)>>,
       <<<<"{", "t", "i", "m", "e", "}">>, ev.now>>,
       <<<<"{", "m", "s", "g", "}">>, ev.message>>,
       <<<<"{", "l", "e", "v", "e", "l", "}">>, LevelToString(ev.level)>>,
       <<<<"{", "m", "o", "d", "u", "l", "e", "}">>, UnwrapOr(ev.module, placeholder)>>,
       <<<<"{", "f", "i", "l", "e", "}">>, FileText(ev.file, placeholder)>>,
       <<<<"{", "l", "i", "n", "e", "}">>, UIntToString(UnwrapOr(ev.line, 0))>> >>

\* one pass over the format string; what is inserted is not scanned
RECURSIVE SubstituteOnce(_, _)
SubstituteOnce(tpl, toks) ==
    IF tpl = <<>> THEN <<>>
    ELSE LET m == {k \in 1..Len(toks) : IsPrefix(toks[k][1], tpl)}
         IN  IF m = {}
             THEN <<Head(tpl)>> \o SubstituteOnce(Tail(tpl), toks)
             ELSE LET k == CHOOSE k \in m : TRUE
                  IN  toks[k][2] \o
                      SubstituteOnce(SubSeq(tpl, Len(toks[k][1]) + 1, Len(tpl)), toks)

C13_SubstitutedOnce ==
    layer.format.kind = "Template" =>
        \A i \in Admitted :
            \E ev \in FormatEvents :
                /\ ev.message = events[i].message
                /\ events[i].req[1].text =
                      SubstituteOnce(layer.format.tpl, TokenValues(ev, layer.unknown))

(***************************************************************************)
(* C20. An event whose message field is absent or empty is dropped by      *)
(* on_event before filtering and formatting, whatever the tag list (the    *)
(* empty list and a list holding the empty string included): it makes no   *)
(* request, no spawned task, no channel entry and no send.                 *)
(***************************************************************************)
C20_EmptyMessageDropped ==
    \A i \in 1..Len(events) :
        events[i].message = <<>> =>
            /\ events[i].req = None
            /\ NoTrace(i)

\* the tag list holds the empty string, which every message contains: the
\* empty message was dropped all the same, the message "b" was sent
C20_Witness ==
    /\ layer.tag = <<<<>>>>
    /\ Len(events) = 2
    /\ events[1].message = <<>>
    /\ events[1].req = None
    /\ events[2].message = <<"b">>
    /\ Idle
    /\ Len(sent) = 1

(***************************************************************************)
(* C16. The placeholder string of every built sink is non-empty, whatever  *)
(* builder calls came before build(), calls of unknown(..) included.       *)
(***************************************************************************)
C16_PlaceholderNonEmpty ==
    phase = "built" => layer.unknown # <<>>

(***************************************************************************)
(* C17. The number of pending enqueue tasks is not bounded by the channel  *)
(* capacity: with the channel full and the worker stalled in a send or in  *)
(* its failure delay, on_event can still run, and each admitted event adds *)
(* exactly one more pending task and leaves the channel as it is.          *)
(***************************************************************************)
Stalled == Len(queue) = Capacity /\ wpc \in {"send", "sleep"}

C17_TasksNotBoundedByCapacity ==
    /\ [](Stalled /\ layers >= 1 /\ budget >= 1 => ENABLED on_event)
    /\ [][(Stalled /\ Len(events') > Len(events)
                    /\ IsSome(events'[Len(events')].req))
            => /\ tasks' = tasks \cup {Len(events')}
               /\ Cardinality(tasks') = Cardinality(tasks) + 1
               /\ queue' = queue
               /\ Cardinality(tasks') + Len(queue') > Capacity]_vars

\* the channel is full, the worker sleeps after a failed send, and every
\* event emitted since the channel filled up again is a waiting task
C17_Witness ==
    /\ Stalled
    /\ wpc = "sleep"
    /\ budget = 0
    /\ Cardinality(tasks) = MaxEvents - 1
    /\ ~ENABLED TaskSend

(***************************************************************************)
(* C18. A built sink has one consumer of its channel: the worker exists    *)
(* exactly when build() has returned, cloning or dropping a layer leaves   *)
(* worker and channel as they are, only the worker waiting in recv takes a *)
(* request, one at a time from the head, and a send starts only when no    *)
(* other is in flight: from recv, or when the previous send returned Ok,   *)
(* or when the delay after a failed send has run out.                      *)
(***************************************************************************)
C18_OneConsumerOneSendInFlight ==
    /\ [](wpc = "none" <=> phase # "built")
    /\ [][ /\ (wpc = "none" /\ wpc' # "none")
                => (phase = "builder" /\ phase' = "built" /\ wpc' = "recv")
           /\ (layers >= 1 /\ layers' # layers)
                => UNCHANGED <<workerVars, queue, chat_ids>>
           /\ Len(queue') < Len(queue)
                => (wpc = "recv" /\ queue' = Tail(queue))
           /\ Len(sent') > Len(sent)
                => /\ Len(sent') = Len(sent) + 1
                   /\ wpc' = "send"
                   /\ \/ wpc = "recv" /\ idx' = 1
                      \/ wpc = "send" /\ lastResult' = "ok"
                            /\ cur' = cur /\ idx' = idx + 1
                      \/ wpc = "sleep" /\ sleepLeft = 0
                            /\ cur' = cur /\ idx' = idx + 1
         ]_vars

\* the sink was cloned; the one worker has the second request's send to the
\* second recipient in flight, after a failed send
C18_Witness ==
    /\ layers = 2
    /\ Len(chat_ids) = 2
    /\ wpc = "send"
    /\ idx = 2
    /\ Dequeued = 2
    /\ Len(sent) = 4
    /\ lastResult = "err"

(***************************************************************************)
(* C19. The worker does not terminate while a producer handle exists (a    *)
(* layer, a clone, a pending enqueue task); when all are dropped it first  *)
(* sends every request still in the channel to every recipient, and then   *)
(* terminates.                                                             *)
(***************************************************************************)
C19_WorkerDrainsThenTerminates ==
    /\ [](wpc = "done" =>
            /\ Senders = 0
            /\ queue = <<>>
            /\ Range(enqOrder) = Admitted
            /\ Len(sent) = Len(enqOrder) * Len(chat_ids))
    /\ [][Senders > 0 => wpc' # "done"]_vars
    /\ (Senders = 0) ~> (wpc = "done")

\* every handle is dropped, a request is still in the channel, and the worker
\* is sending an earlier one
C19_Witness ==
    /\ Senders = 0
    /\ queue # <<>>
    /\ wpc = "send"
    /\ Len(chat_ids) = 2

(***************************************************************************)
(* C21. The recipient setters replace, they do not accumulate: after any   *)
(* sequence of chat_id, chat_ids and with_bot calls the builder holds, and *)
(* the built sink delivers to, exactly the argument of the last such call  *)
(* (a one-element list for chat_id); a chat id passed only to an earlier   *)
(* call receives no send.                                                  *)
(***************************************************************************)
C21_LastRecipientSetterWins ==
    /\ phase = "builder" => builder.chat_ids = recipientLog.last
    /\ phase = "built" =>
          /\ IsSome(recipientLog.last)
          /\ chat_ids = recipientLog.last[1]
          /\ \A j \in 1..Len(sent) : sent[j].to \in Range(recipientLog.last[1])
          /\ \A r \in recipientLog.all \ Range(recipientLog.last[1]) :
                \A j \in 1..Len(sent) : sent[j].to # r

\* chat id 2 was passed to an earlier setter, chat_id(1) came last: the sink
\* sent both admitted events to 1 only
C21_Witness ==
    /\ phase = "built"
    /\ recipientLog.all = {1, 2}
    /\ chat_ids = <<1>>
    /\ Cardinality(Admitted) = 2
    /\ Idle
    /\ Len(sent) = 2

====
